---- MODULE Spec2Model ----
(***************************************************************************)
(* MemoriGraph: the HTTP facade over the graph store and the knowledge     *)
(* engine.  The state is the graph (nodes and relationships), the requests *)
(* in flight (one program counter and one frame of locals per request      *)
(* slot, a step per awaited upstream call) and the observations the        *)
(* properties are stated over (the latest returned call and, per user      *)
(* identifier, what the previous calls returned).                          *)
(* The two adapters that cache the engine client and the graph driver, and *)
(* the start-up and shutdown of the app, are driven by SpecAdapters.        *)
(***************************************************************************)
EXTENDS Integers, FiniteSets, Sequences, TLC

VARIABLES
    nodes,      \* the graph's nodes: [id, gid, labels, name, num]
    rels,       \* the graph's relationships: [src, dst, type, copy]
    nextId,     \* next fresh uuid (uuid4 values are never reused)
    arrivals,   \* requests received so far
    pc,         \* pc[r]: the await the request in slot r is suspended at
    loc,        \* loc[r]: the locals of the request in slot r
    ev,         \* what the latest step returned (NoEvent: it returned nothing)
    postPrev,   \* the previous 201 of POST /users: [uid, uuid, user_name]; NoPost once
                \* the user's data was deleted
    run,        \* [uid, k]: the k recordings made for uid since its partition held no
                \* session were all auto-numbered, one after another, every call succeeding
    linkPrev,   \* the previous link call: [uid, uuid, linked_sessions]; NoLink once a session was
                \* recorded for uid
    _graphiti,  \* GraphitiManager._graphiti: the cached client (None: no client)
    _driver,    \* Neo4jDriver._driver: the cached client (None: no client)
    nextClient, \* the next client an adapter constructs
    since       \* since[a]: the clients adapter a constructed (built) and returned
                \* (handed) since its cache was last cleared

vars == <<nodes, rels, nextId, arrivals, pc, loc, ev, postPrev, run, linkPrev,
          _graphiti, _driver, nextClient, since>>

\* the state of the graph and of what is observed of the requests
graph == <<nodes, rels, nextId, postPrev, run, linkPrev>>
\* the state of the two adapters
adapters == <<_graphiti, _driver, nextClient, since>>

----------------------------------------------------------------------------
\* Bounds of the model.
MaxSeqArrivals == 3     \* requests of a behaviour that handles one request at a time
MaxParArrivals == 2     \* requests of a behaviour that interleaves them
MaxOneUserArrivals == 3 \* requests of a behaviour that interleaves them for one user
MaxAdapterCalls == 4    \* calls made to the adapters

\* Inputs.
Users == {"u1", "u2"}
Names == {"Alice", "Bob"}
ExplicitNumbers == {2}
Mentions == {"", "Bob"}    \* the entity the engine extracts from a summary ("": none)

Queries == {"Bob"}            \* the query of a profile search
Req == {1, 2}      \* the requests in flight at the same time

IdleLoc ==
    [route |-> "none", uid |-> "", name |-> "", auto |-> FALSE, num |-> 0,
     ext |-> "", uuid |-> 0, uname |-> "", node_count |-> 0, rel_count |-> 0,
     had_nodes |-> 0, had_rels |-> 0, clean |-> TRUE, status |-> 0,
     log |-> <<>>, failed |-> {}]

None == 0          \* no client cached
Adapters == {"graphiti", "driver"}
NoClients == [a \in Adapters |-> [built |-> {}, handed |-> {}]]

NoEvent == [op |-> "none"]
NoPost == [uid |-> "", uuid |-> 0, user_name |-> ""]
NoRun == [uid |-> "", k |-> 0]
NoLink == [uid |-> "", uuid |-> 0, linked_sessions |-> 0]

\* the run of recordings is broken for user u
Break(u) == IF run.uid = u THEN NoRun ELSE run

----------------------------------------------------------------------------
\* Graph queries.

UserLabels == {"User", "Person", "Entity"}

\* MATCH (n) without the WHERE clause
Scoped_any(g) == nodes

\* MATCH (n) WHERE n.group_id = $user_id
Scoped(g) == {n \in nodes : n.gid = g}

\* the relationships with an end in the set of nodes ns
Incident(ns) ==
    {e \in rels : \E n \in ns : e.src = n.id \/ e.dst = n.id}

\* MATCH (user:Entity {group_id}) WHERE 'User' IN labels(user) OR user.name = $user_name
find_user_query(g, user_name) ==
    {n \in nodes : /\ "Entity" \in n.labels
                   /\ n.gid = g
                   /\ ("User" \in n.labels \/ n.name = user_name)}

\* MATCH (user:Entity {group_id}) WHERE 'User' IN labels(user)
find_user_by_label(g) ==
    {n \in nodes : "Entity" \in n.labels /\ n.gid = g /\ "User" \in n.labels}

\* EntityNode.get_by_uuid: the Entity nodes carrying the uuid
get_by_uuid(u) == {n \in nodes : "Entity" \in n.labels /\ n.id = u}

\* MATCH (session:Episodic {group_id})
Sessions(g) == {n \in nodes : "Episodic" \in n.labels /\ n.gid = g}

\* f"User_{user_id}"
DefaultName(user_id) == "User_" \o user_id

----------------------------------------------------------------------------
Init ==
    /\ nodes = {}
    /\ rels = {}
    /\ nextId = 1
    /\ arrivals = 0
    /\ pc = [r \in Req |-> "idle"]
    /\ loc = [r \in Req |-> IdleLoc]
    /\ ev = NoEvent
    /\ postPrev = NoPost
    /\ run = NoRun
    /\ linkPrev = NoLink
    /\ _graphiti = 1                \* start-up has initialised both adapters
    /\ _driver = 2
    /\ nextClient = 3
    /\ since = [NoClients EXCEPT !["graphiti"].built = {1}, !["driver"].built = {2}]

\* the variant that schedules the link task although the handler raised
Fail_and_link(r, code) ==
    /\ ev' = [op |-> "error", route |-> loc[r].route, uid |-> loc[r].uid, code |-> code]
    /\ pc' = [pc EXCEPT ![r] = "bg_link"]
    /\ loc' = loc

\* the request in slot r ends with HTTPException(status_code = code)
Fail(r, code) ==
    /\ ev' = [op |-> "error", route |-> loc[r].route, uid |-> loc[r].uid, code |-> code]
    /\ pc' = [pc EXCEPT ![r] = "idle"]
    /\ loc' = [loc EXCEPT ![r] = IdleLoc]

----------------------------------------------------------------------------
\* POST /api/v1/users
create_user(r, user_id, user_name) ==
    /\ pc[r] = "idle"
    /\ arrivals' = arrivals + 1
    /\ pc' = [pc EXCEPT ![r] = "foc_find"]
    /\ loc' = [loc EXCEPT ![r] = [IdleLoc EXCEPT !.route = "create_user",
                                                 !.uid = user_id, !.name = user_name]]
    /\ ev' = NoEvent
    /\ UNCHANGED <<nodes, rels, nextId, postPrev, run, linkPrev>>

\* create_or_get_user_node: the find query.  A raising query is swallowed and
\* falls through to the creation, like an empty result.
create_or_get_user_node_find(r) ==
    /\ pc[r] = "foc_find"
    /\ \/ /\ pc' = [pc EXCEPT ![r] = "foc_save"]      \* the query raises
          /\ loc' = [loc EXCEPT ![r].clean = FALSE]
       \/ /\ find_user_query(loc[r].uid, loc[r].name) = {}
          /\ pc' = [pc EXCEPT ![r] = "foc_save"]
          /\ loc' = loc
       \/ \E n \in find_user_query(loc[r].uid, loc[r].name) :    \* LIMIT 1
             /\ pc' = [pc EXCEPT ![r] = "foc_get"]
             /\ loc' = [loc EXCEPT ![r].uuid = n.id]
    /\ ev' = NoEvent
    /\ UNCHANGED <<nodes, rels, nextId, postPrev, run, linkPrev, arrivals>>

\* the continuation of create_or_get_user_node's caller once it returned node n
foc_return(r, n, created) ==
    /\ IF loc[r].route = "create_user"
       THEN /\ ev' = [op |-> "create_user", uid |-> loc[r].uid, code |-> 201,
                      uuid |-> n.id, user_name |-> loc[r].name,
                      created |-> created, labels |-> n.labels,
                      clean |-> loc[r].clean,
                      prev |-> IF postPrev.uid = loc[r].uid THEN postPrev.uuid ELSE 0]
            /\ postPrev' = [uid |-> loc[r].uid, uuid |-> n.id, user_name |-> loc[r].name]
            /\ pc' = [pc EXCEPT ![r] = "idle"]
            /\ loc' = [loc EXCEPT ![r] = IdleLoc]
       ELSE /\ ev' = [op |-> "create_or_get_user", uid |-> loc[r].uid,
                      uuid |-> n.id, created |-> created, labels |-> n.labels,
                      prev |-> IF postPrev.uid = loc[r].uid THEN postPrev.uuid ELSE 0]
            /\ postPrev' = postPrev
            /\ pc' = [pc EXCEPT ![r] = IF loc[r].auto THEN "rec_count" ELSE "rec_add"]
            /\ loc' = [loc EXCEPT ![r].uuid = n.id, ![r].uname = n.name]

\* create_or_get_user_node: EntityNode.get_by_uuid of the record found
create_or_get_user_node_get(r) ==
    /\ pc[r] = "foc_get"
    /\ \/ /\ pc' = [pc EXCEPT ![r] = "foc_save"]      \* raises: swallowed
          /\ loc' = [loc EXCEPT ![r].clean = FALSE]
          /\ ev' = NoEvent /\ postPrev' = postPrev
       \/ /\ get_by_uuid(loc[r].uuid) = {}            \* NodeNotFoundError: swallowed
          /\ pc' = [pc EXCEPT ![r] = "foc_save"]
          /\ loc' = loc
          /\ ev' = NoEvent /\ postPrev' = postPrev
       \/ \E n \in get_by_uuid(loc[r].uuid) : foc_return(r, n, FALSE)
    /\ UNCHANGED <<nodes, rels, nextId, run, linkPrev, arrivals>>

\* the EntityNode that create_or_get_user_node constructs
new_user_node(id, user_id, user_name) ==
    [id |-> id, gid |-> user_id, labels |-> UserLabels, name |-> user_name, num |-> 0]

\* create_or_get_user_node: generate_name_embedding, then save
create_or_get_user_node_save(r) ==
    /\ pc[r] = "foc_save"
    /\ \/ /\ Fail(r, 400)                              \* embedder or save raises
          /\ run' = IF loc[r].route = "create_session" THEN Break(loc[r].uid) ELSE run
          /\ UNCHANGED <<nodes, nextId, postPrev>>
       \/ /\ LET n == new_user_node(nextId, loc[r].uid, loc[r].name)
             IN /\ nodes' = nodes \cup {n}
                /\ nextId' = nextId + 1
                /\ foc_return(r, n, TRUE)
          /\ run' = run
    /\ UNCHANGED <<rels, linkPrev, arrivals>>

\* GET /api/v1/users/{user_id}
get_user(r, user_id) ==
    /\ pc[r] = "idle"
    /\ arrivals' = arrivals + 1
    /\ LET post == IF postPrev.uid = user_id THEN postPrev ELSE NoPost
           not_found(raised) ==
               [op |-> "get_user", uid |-> user_id, code |-> 404, raised |-> raised,
                uuid |-> 0, user_name |-> "", post |-> post]
       IN \/ ev' = not_found(TRUE)                       \* the query raises
          \/ /\ find_user_by_label(user_id) = {}
             /\ ev' = not_found(FALSE)
          \/ \E n \in find_user_by_label(user_id) :      \* LIMIT 1
                ev' = [op |-> "get_user", uid |-> user_id, code |-> 200,
                       raised |-> FALSE, uuid |-> n.id, user_name |-> n.name,
                       post |-> post]
    /\ UNCHANGED <<nodes, rels, nextId, pc, loc, postPrev, run, linkPrev>>

----------------------------------------------------------------------------
\* POST /api/v1/sessions/{user_id}.  auto: session_number is None; ext: the
\* entity the engine will extract from session_summary.
create_session(r, user_id, auto, session_number, ext) ==
    /\ pc[r] = "idle"
    /\ arrivals' = arrivals + 1
    /\ pc' = [pc EXCEPT ![r] = "cs_find"]
    /\ loc' = [loc EXCEPT ![r] = [IdleLoc EXCEPT !.route = "create_session",
                                                 !.uid = user_id, !.auto = auto,
                                                 !.num = session_number, !.ext = ext]]
    /\ ev' = NoEvent
    /\ UNCHANGED <<nodes, rels, nextId, postPrev, run, linkPrev>>

\* create_session: the find query for the User of the partition
create_session_find(r) ==
    /\ pc[r] = "cs_find"
    /\ \/ /\ Fail(r, 400)                              \* the query raises
          /\ run' = Break(loc[r].uid)
       \/ /\ find_user_by_label(loc[r].uid) = {}       \* create with the default name
          /\ pc' = [pc EXCEPT ![r] = "foc_find"]
          /\ loc' = [loc EXCEPT ![r].name = DefaultName(loc[r].uid)]
          /\ ev' = NoEvent /\ run' = run
       \/ \E n \in find_user_by_label(loc[r].uid) :    \* LIMIT 1
             /\ pc' = [pc EXCEPT ![r] = "cs_get"]
             /\ loc' = [loc EXCEPT ![r].uuid = n.id]
             /\ ev' = NoEvent /\ run' = run
    /\ UNCHANGED <<nodes, rels, nextId, postPrev, linkPrev, arrivals>>

\* create_session: EntityNode.get_by_uuid of the User found
create_session_get(r) ==
    /\ pc[r] = "cs_get"
    /\ \/ /\ Fail(r, 400)                              \* raises
          /\ run' = Break(loc[r].uid)
       \/ /\ get_by_uuid(loc[r].uuid) = {}             \* NodeNotFoundError
          /\ Fail(r, 400)
          /\ run' = Break(loc[r].uid)
       \/ \E n \in get_by_uuid(loc[r].uuid) :
             /\ pc' = [pc EXCEPT ![r] = IF loc[r].auto THEN "rec_count" ELSE "rec_add"]
             /\ loc' = [loc EXCEPT ![r].uname = n.name]
             /\ ev' = NoEvent /\ run' = run
    /\ UNCHANGED <<nodes, rels, nextId, postPrev, linkPrev, arrivals>>

\* the count itself as the next number: the variant that leaves out the + 1
next_session_number_count(session_count) == session_count

\* int(count) + 1
next_session_number(session_count) == session_count + 1

\* SessionService._get_next_session_number: 1 when the count query raises
_get_next_session_number(r) ==
    /\ pc[r] = "rec_count"
    /\ \/ loc' = [loc EXCEPT ![r].num = 1, ![r].clean = FALSE]
       \/ loc' = [loc EXCEPT ![r].num =
                     next_session_number(Cardinality(Sessions(loc[r].uid)))]
    /\ pc' = [pc EXCEPT ![r] = "rec_add"]
    /\ ev' = NoEvent
    /\ UNCHANGED <<nodes, rels, nextId, postPrev, run, linkPrev, arrivals>>

\* the Episodic node graphiti.add_episode persists for the session
episode_node(id, user_id, session_number) ==
    [id |-> id, gid |-> user_id, labels |-> {"Episodic"},
     name |-> "Therapy Session", num |-> session_number]

\* the relationship of a type from src to dst that a CREATE adds: a further copy
\* when the graph holds such relationships already
new_rel(src, dst, type) ==
    [src |-> src, dst |-> dst, type |-> type,
     copy |-> 1 + Cardinality({e \in rels : e.src = src /\ e.dst = dst /\ e.type = type})]

\* add_session_to_graph: graphiti.add_episode persists the episode and, for an
\* entity it extracts, a MENTIONS edge to the partition's entity of that name
\* (created when the partition has none).
add_session_to_graph(r) ==
    /\ pc[r] = "rec_add"
    /\ LET u == loc[r].uid
           ep == episode_node(nextId, u, loc[r].num)
           known == {n \in nodes : "Entity" \in n.labels /\ n.gid = u /\ n.name = loc[r].ext}
           k == IF ~ (loc[r].auto /\ loc[r].clean) THEN 0
                ELSE IF Sessions(u) = {} THEN 1
                ELSE IF run.uid = u THEN run.k + 1 ELSE 0
           done == /\ ev' = [op |-> "create_session", uid |-> u, code |-> 201,
                             session_number |-> loc[r].num, auto |-> loc[r].auto, k |-> k]
                   /\ run' = IF k = 0 THEN Break(u) ELSE [uid |-> u, k |-> k]
                   /\ linkPrev' = IF linkPrev.uid = u THEN NoLink ELSE linkPrev
                   /\ pc' = [pc EXCEPT ![r] = "bg_link"]
                   \* the background task keeps user_node and user_id only
                   /\ loc' = [loc EXCEPT ![r] = [IdleLoc EXCEPT
                                 !.route = "create_session", !.uid = u,
                                 !.uuid = loc[r].uuid, !.status = 201]]
       IN \/ /\ Fail(r, 400)                           \* add_episode raises
             /\ run' = Break(u)
             /\ UNCHANGED <<nodes, rels, nextId, linkPrev>>
          \/ /\ loc[r].ext = ""
             /\ nodes' = nodes \cup {ep}
             /\ nextId' = nextId + 1
             /\ rels' = rels
             /\ done
          \/ /\ loc[r].ext # ""
             /\ known = {}
             /\ nodes' = nodes \cup {ep, [id |-> nextId + 1, gid |-> u, labels |-> {"Entity"},
                                          name |-> loc[r].ext, num |-> 0]}
             /\ rels' = rels \cup {new_rel(nextId, nextId + 1, "MENTIONS")}
             /\ nextId' = nextId + 2
             /\ done
          \/ /\ loc[r].ext # ""
             /\ \E m \in known : rels' = rels \cup {new_rel(nextId, m.id, "MENTIONS")}
             /\ nodes' = nodes \cup {ep}
             /\ nextId' = nextId + 1
             /\ done
    /\ UNCHANGED <<postPrev, arrivals>>

\* link_query without its WHERE NOT clause: every session of the partition
link_rows_all(user_uuid, g) == get_by_uuid(user_uuid) \X Sessions(g)

\* link_query with the pattern of its WHERE NOT clause reversed
link_rows_reversed(user_uuid, g) ==
    {row \in get_by_uuid(user_uuid) \X Sessions(g) :
        ~ \E e \in rels : /\ e.type = "HAS_SESSION"
                          /\ e.src = row[2].id
                          /\ e.dst = row[1].id}

\* the rows of link_query: MATCH (user:Entity {uuid}) MATCH (session:Episodic
\* {group_id}) WHERE NOT (user)-[:HAS_SESSION]->(session)
link_rows(user_uuid, g) ==
    {row \in get_by_uuid(user_uuid) \X Sessions(g) :
        ~ \E e \in rels : /\ e.type = "HAS_SESSION"
                          /\ e.src = row[1].id
                          /\ e.dst = row[2].id}

\* the variant that lets the failure of the query out of the background task
link_sessions_reraise(r, common) ==
    /\ ev' = [op |-> "error", route |-> loc[r].route, uid |-> loc[r].uid, code |-> 500]
    /\ UNCHANGED <<rels, linkPrev>>

\* link_sessions_to_user: except Exception: log, return 0
link_sessions_except(r, common) ==
    /\ ev' = common @@ [raised |-> TRUE, linked_sessions |-> 0, made |-> 0]
    /\ UNCHANGED <<rels, linkPrev>>

\* link_sessions_to_user, run as the request's background task: one CREATE per
\* row, RETURN count(session); 0 when the query raises
link_sessions_to_user(r) ==
    /\ pc[r] = "bg_link"
    /\ LET u == loc[r].uid
           rows == link_rows(loc[r].uuid, u)
           lacking == {s \in Sessions(u) :
                          ~ \E e \in rels : /\ e.type = "HAS_SESSION"
                                            /\ e.src = loc[r].uuid /\ e.dst = s.id}
           common == [op |-> "link_user_sessions", uid |-> u, uuid |-> loc[r].uuid,
                      live |-> get_by_uuid(loc[r].uuid) # {},
                      lacking |-> Cardinality(lacking),
                      again |-> (linkPrev.uid = u /\ linkPrev.uuid = loc[r].uuid),
                      prev_linked |-> linkPrev.linked_sessions,
                      response |-> loc[r].status]
       IN \/ link_sessions_except(r, common)             \* the query raises
          \/ /\ rels' = rels \cup {new_rel(row[1].id, row[2].id, "HAS_SESSION") : row \in rows}
             /\ ev' = common @@ [raised |-> FALSE, linked_sessions |-> Cardinality(rows),
                                 made |-> Cardinality(rels') - Cardinality(rels)]
             /\ linkPrev' = [uid |-> u, uuid |-> loc[r].uuid,
                              linked_sessions |-> Cardinality(rows)]
    /\ pc' = [pc EXCEPT ![r] = "idle"]
    /\ loc' = [loc EXCEPT ![r] = IdleLoc]
    /\ UNCHANGED <<nodes, nextId, postPrev, run, arrivals>>

----------------------------------------------------------------------------
\* DELETE /api/v1/users/{user_id}
delete_user(r, user_id) ==
    /\ pc[r] = "idle"
    /\ arrivals' = arrivals + 1
    /\ pc' = [pc EXCEPT ![r] = "del_count"]
    /\ loc' = [loc EXCEPT ![r] = [IdleLoc EXCEPT !.route = "delete_user", !.uid = user_id]]
    /\ ev' = NoEvent
    /\ UNCHANGED <<nodes, rels, nextId, postPrev, run, linkPrev>>

\* the rows of count_query: MATCH (n) WHERE n.group_id = $user_id
\* OPTIONAL MATCH (n)-[r]-(); a node without relationship gives one row with
\* a null r (<<>>)
count_rows(g) ==
    UNION {IF Incident({n}) = {}
           THEN {<<n.id, <<>> >>}
           ELSE {<<n.id, e>> : e \in Incident({n})} : n \in Scoped(g)}

\* count(DISTINCT n)
count_nodes(rows) == Cardinality({row[1] : row \in rows})

\* count(r): the variant without DISTINCT counts a relationship once per row
count_rels_rows(rows) == Cardinality({row \in rows : row[2] # <<>>})

\* count(DISTINCT r): nulls are not counted
count_rels(rows) == Cardinality({row[2] : row \in rows} \ {<<>>})

\* the variant without early return: no count is taken for "no data"
no_data_found_never(node_count) == node_count < 0

\* if node_count == 0
no_data_found(node_count) == node_count = 0

\* delete_user_data: the count query, and the early return when it counts no node
delete_user_data_count(r) ==
    /\ pc[r] = "del_count"
    /\ LET u == loc[r].uid
           node_count == count_nodes(count_rows(u))
           rel_count == count_rels(count_rows(u))
       IN \/ /\ Fail(r, 400)                           \* the query raises
             /\ nodes' = nodes /\ rels' = rels
          \/ /\ no_data_found(node_count)
             /\ nodes' = nodes /\ rels' = rels
             /\ ev' = [op |-> "delete_user", uid |-> u, code |-> 404,
                       status |-> "no_data_found", deleted_nodes |-> 0,
                       deleted_relationships |-> 0,
                       node_count |-> node_count, rel_count |-> rel_count,
                       ran |-> {"count_query"},
                       had_nodes |-> Cardinality(Scoped(u)),
                       had_rels |-> Cardinality(Incident(Scoped(u))),
                       removed_nodes |-> Cardinality(nodes) - Cardinality(nodes'),
                       unchanged |-> (nodes' = nodes /\ rels' = rels)]
             /\ pc' = [pc EXCEPT ![r] = "idle"]
             /\ loc' = [loc EXCEPT ![r] = IdleLoc]
          \/ /\ ~ no_data_found(node_count)
             /\ pc' = [pc EXCEPT ![r] = "del_delete"]
             /\ loc' = [loc EXCEPT ![r].node_count = node_count,
                                   ![r].rel_count = rel_count,
                                   ![r].had_nodes = Cardinality(Scoped(u)),
                                   ![r].had_rels = Cardinality(Incident(Scoped(u)))]
             /\ ev' = NoEvent
             /\ nodes' = nodes /\ rels' = rels
    /\ UNCHANGED <<nextId, postPrev, run, linkPrev, arrivals>>

\* the variant that reports both counts of the count query
delete_result_counted(node_count, rel_count, deleted_nodes) ==
    [deleted_nodes |-> node_count, deleted_relationships |-> rel_count]

\* the response body of a successful deletion: deleted_nodes is the delete
\* query's count(n), deleted_relationships the count query's rel_count
delete_result(node_count, rel_count, deleted_nodes) ==
    [deleted_nodes |-> deleted_nodes, deleted_relationships |-> rel_count]

\* delete_user_data: MATCH (n) WHERE n.group_id = $user_id DETACH DELETE n
delete_user_data_delete(r) ==
    /\ pc[r] = "del_delete"
    /\ LET u == loc[r].uid
           body == delete_result(loc[r].node_count, loc[r].rel_count,
                                 Cardinality(Scoped(u)))
       IN \/ /\ Fail(r, 400)                           \* the query raises
             /\ UNCHANGED <<nodes, rels, postPrev, run>>
          \/ /\ nodes' = nodes \ Scoped(u)
             /\ rels' = rels \ Incident(Scoped(u))
             /\ ev' = [op |-> "delete_user", uid |-> u, code |-> 200,
                       status |-> "success",
                       deleted_nodes |-> body.deleted_nodes,
                       deleted_relationships |-> body.deleted_relationships,
                       node_count |-> loc[r].node_count,
                       rel_count |-> loc[r].rel_count,
                       ran |-> {"count_query", "delete_query"},
                       had_nodes |-> loc[r].had_nodes,
                       had_rels |-> loc[r].had_rels,
                       removed_nodes |-> Cardinality(nodes) - Cardinality(nodes'),
                       unchanged |-> (nodes' = nodes /\ rels' = rels)]
             /\ postPrev' = IF postPrev.uid = u THEN NoPost ELSE postPrev
             /\ run' = Break(u)
             /\ pc' = [pc EXCEPT ![r] = "idle"]
             /\ loc' = [loc EXCEPT ![r] = IdleLoc]
    /\ UNCHANGED <<nextId, linkPrev, arrivals>>

----------------------------------------------------------------------------
\* POST /api/v1/profile/search and /search/center-node
\* the facts the engine holds: what it extracted from the episodes recorded
facts == {e \in rels : e.type = "MENTIONS"}

\* the facts extracted from the episodes of partition g
facts_of(g) == {e \in facts : \E n \in Sessions(g) : n.id = e.src}

\* graphiti.search(query) and graphiti.search(query, center_node_uuid): neither
\* call passes group_ids, so that the search ranges over the facts of the graph;
\* the center node changes the order of the results only
search(query, center_node_uuid) == facts

\* search_profile and search_with_center_node: user_id is logged, the search
\* gets the query (and the center node)
search_profile(r, user_id, query, center_node_uuid) ==
    /\ pc[r] = "idle"
    /\ arrivals' = arrivals + 1
    /\ \/ ev' = [op |-> "error", route |-> "search_profile", uid |-> user_id,
                 code |-> 400]                          \* the search raises
       \/ LET results == search(query, center_node_uuid)
          IN ev' = [op |-> "search_profile", uid |-> user_id, code |-> 200,
                    results |-> results, count |-> Cardinality(results),
                    scoped |-> facts_of(user_id)]
    /\ UNCHANGED <<nodes, rels, nextId, pc, loc, postPrev, run, linkPrev>>

----------------------------------------------------------------------------
\* A request arrives in slot r.
Arrive(r) ==
    \/ \E u \in Users, name \in Names : create_user(r, u, name)
    \/ \E u \in Users : get_user(r, u)
    \/ \E u \in Users : delete_user(r, u)
    \/ \E u \in Users, ext \in Mentions : create_session(r, u, TRUE, 0, ext)
    \/ \E u \in Users, ext \in Mentions, k \in ExplicitNumbers :
          create_session(r, u, FALSE, k, ext)

\* A profile search arrives in slot r (0: no center node).
ArriveSearch(r) ==
    \E u \in Users, q \in Queries, c \in {0, 1} : search_profile(r, u, q, c)

\* The request in slot r resumes from its await.
Resume(r) ==
    \/ create_or_get_user_node_find(r)
    \/ create_or_get_user_node_get(r)
    \/ create_or_get_user_node_save(r)
    \/ create_session_find(r)
    \/ create_session_get(r)
    \/ _get_next_session_number(r)
    \/ add_session_to_graph(r)
    \/ link_sessions_to_user(r)
    \/ delete_user_data_count(r)
    \/ delete_user_data_delete(r)

\* The event loop interleaves the requests at their awaits.
\* a request is handled in the first free slot
FirstFree(r) == \A q \in Req : q < r => pc[q] # "idle"

Next ==
    \E r \in Req : \/ /\ arrivals < MaxParArrivals /\ FirstFree(r) /\ Arrive(r)
                      /\ UNCHANGED adapters
                   \/ Resume(r) /\ UNCHANGED adapters

Spec == Init /\ [][Next]_vars

\* One request at a time: a request arrives only when no other is in flight
\* and no background task is pending.
Quiescent == \A r \in Req : pc[r] = "idle"

NextSeq ==
    \/ Quiescent /\ arrivals < MaxSeqArrivals /\ Arrive(1) /\ UNCHANGED adapters
    \/ Quiescent /\ arrivals < MaxSeqArrivals /\ ArriveSearch(1) /\ UNCHANGED adapters
    \/ Resume(1) /\ UNCHANGED adapters

SpecSeq == Init /\ [][NextSeq]_vars

\* The recordings and deletions for one user, interleaved at their awaits.
\* add_session_to_graph puts the user's name into the episode body ("Session
\* {n} for {user_name}: ..."), and the engine extracts an entity of that name.
ArriveOneUser(r) ==
    \/ create_session(r, "u1", TRUE, 0, DefaultName("u1"))
    \/ delete_user(r, "u1")

NextOneUser ==
    \E r \in Req : \/ /\ arrivals < MaxOneUserArrivals /\ FirstFree(r)
                      /\ ArriveOneUser(r) /\ UNCHANGED adapters
                   \/ Resume(r) /\ UNCHANGED adapters

SpecOneUser == Init /\ [][NextOneUser]_vars

----------------------------------------------------------------------------
\* The adapters (GraphitiManager, Neo4jDriver) and the lifespan of the app.

\* adapter a returns client c, constructed by the call or not
Handed(a, c, constructed) ==
    [since EXCEPT ![a].handed = @ \cup {c},
                  ![a].built = @ \cup (IF constructed THEN {c} ELSE {})]

\* the cache of adapter a is set to None
Cleared(a) == [since EXCEPT ![a] = [built |-> {}, handed |-> {}]]

\* the variant of initialize without the check of the cache
initialize_always(cached, fresh) == fresh

\* GraphitiManager.initialize: if self._graphiti is None: self._graphiti =
\* Graphiti(...); return self._graphiti (no await in between)
initialize(cached, fresh) == IF cached = None THEN fresh ELSE cached

\* Neo4jDriver.get_driver: if self._driver is None: self._driver =
\* AsyncGraphDatabase.driver(...); return self._driver (no await in between)
get_driver_value(cached, fresh) == IF cached = None THEN fresh ELSE cached

\* what a get call returns
GetEvent(r, a, before, client, raced) ==
    [op |-> "get", adapter |-> a, task |-> r, before |-> before, client |-> client,
     constructed |-> IF client = nextClient THEN 1 ELSE 0,
     cached_after |-> client, raced |-> raced]

\* GraphitiManager.get_graphiti: the cached client, or await self.initialize()
get_graphiti(r) ==
    /\ pc[r] = "idle"
    /\ arrivals' = arrivals + 1
    /\ \/ /\ _graphiti # None
          /\ ev' = GetEvent(r, "graphiti", _graphiti, _graphiti, FALSE)
          /\ since' = Handed("graphiti", _graphiti, FALSE)
          /\ UNCHANGED <<pc, loc>>
       \/ /\ _graphiti = None
          /\ pc' = [pc EXCEPT ![r] = "gm_init"]
          /\ loc' = [loc EXCEPT ![r] = [IdleLoc EXCEPT !.route = "get_graphiti"]]
          /\ ev' = NoEvent
          /\ since' = since
    /\ UNCHANGED <<_graphiti, _driver, nextClient>>

\* GraphitiManager.initialize, awaited by get_graphiti
get_graphiti_initialize(r) ==
    /\ pc[r] = "gm_init"
    /\ LET client == initialize(_graphiti, nextClient)
       IN /\ _graphiti' = client
          /\ nextClient' = IF client = nextClient THEN nextClient + 1 ELSE nextClient
          /\ ev' = GetEvent(r, "graphiti", _graphiti, client, _graphiti # None)
          /\ since' = Handed("graphiti", client, client = nextClient)
    /\ pc' = [pc EXCEPT ![r] = "idle"]
    /\ loc' = [loc EXCEPT ![r] = IdleLoc]
    /\ UNCHANGED <<arrivals, _driver>>

\* Neo4jDriver.get_driver
get_driver(r) ==
    /\ pc[r] = "idle"
    /\ arrivals' = arrivals + 1
    /\ LET client == get_driver_value(_driver, nextClient)
       IN /\ _driver' = client
          /\ nextClient' = IF client = nextClient THEN nextClient + 1 ELSE nextClient
          /\ ev' = GetEvent(r, "driver", _driver, client, FALSE)
          /\ since' = Handed("driver", client, client = nextClient)
    /\ UNCHANGED <<pc, loc, _graphiti>>

\* lifespan, start-up: await graphiti_manager.initialize(), then await
\* neo4j_driver.get_driver(); neither suspends
lifespan_startup(r) ==
    /\ pc[r] = "idle"
    /\ arrivals' = arrivals + 1
    /\ LET g == initialize(_graphiti, nextClient)
           next == IF g = nextClient THEN nextClient + 1 ELSE nextClient
           d == get_driver_value(_driver, next)
       IN /\ _graphiti' = g
          /\ _driver' = d
          /\ nextClient' = IF d = next THEN next + 1 ELSE next
          /\ since' = [since EXCEPT
                 !["graphiti"].built = @ \cup (IF g = nextClient THEN {g} ELSE {}),
                 !["driver"].built = @ \cup (IF d = next THEN {d} ELSE {})]
          /\ ev' = [op |-> "startup", graphiti |-> g, driver |-> d]
    /\ UNCHANGED <<pc, loc>>

\* a call of GraphitiManager.close
GraphitiManager_close(r) ==
    /\ pc[r] = "idle"
    /\ arrivals' = arrivals + 1
    /\ pc' = [pc EXCEPT ![r] = "gm_close"]
    /\ loc' = [loc EXCEPT ![r] = [IdleLoc EXCEPT !.route = "close"]]
    /\ ev' = NoEvent
    /\ UNCHANGED adapters

\* a call of Neo4jDriver.close
Neo4jDriver_close(r) ==
    /\ pc[r] = "idle"
    /\ arrivals' = arrivals + 1
    /\ pc' = [pc EXCEPT ![r] = "nd_close"]
    /\ loc' = [loc EXCEPT ![r] = [IdleLoc EXCEPT !.route = "close"]]
    /\ ev' = NoEvent
    /\ UNCHANGED adapters

\* lifespan, shutdown: it begins with graphiti_manager.close()
lifespan_shutdown(r) ==
    /\ pc[r] = "idle"
    /\ arrivals' = arrivals + 1
    /\ pc' = [pc EXCEPT ![r] = "gm_close"]
    /\ loc' = [loc EXCEPT ![r] = [IdleLoc EXCEPT !.route = "shutdown"]]
    /\ ev' = NoEvent
    /\ UNCHANGED adapters

\* what a close call returned or raised
CloseEvent(a, had, raised, propagated, cached_after) ==
    [op |-> "close", adapter |-> a, had |-> had, raised |-> raised,
     propagated |-> propagated, cached_after |-> cached_after]

\* the variant of the shutdown whose first close is not in a try of its own
after_graphiti_close_uncaught(route, raised) ==
    IF route = "shutdown" /\ ~ raised THEN "nd_close" ELSE "idle"

\* where the caller of GraphitiManager.close continues: the shutdown catches
\* what the close raises and goes on to neo4j_driver.close()
after_graphiti_close(route, raised) ==
    IF route = "shutdown" THEN "nd_close" ELSE "idle"

\* the end of the shutdown sequence
ShutdownEvent(log, failed) ==
    [op |-> "shutdown", log |-> log, failed |-> failed, propagated |-> FALSE]

\* the caller of a close continues at target, having seen event e
Continue(r, target, a, raised, e) ==
    LET log == Append(loc[r].log, a)
        failed == loc[r].failed \cup (IF raised THEN {a} ELSE {})
    IN /\ pc' = [pc EXCEPT ![r] = target]
       /\ IF target = "idle"
          THEN /\ loc' = [loc EXCEPT ![r] = IdleLoc]
               /\ ev' = IF loc[r].route = "shutdown" THEN ShutdownEvent(log, failed) ELSE e
          ELSE /\ loc' = [loc EXCEPT ![r].log = log, ![r].failed = failed, ![r].uuid = 0]
               /\ ev' = e

\* GraphitiManager.close: if self._graphiti is not None: await self._graphiti.close()
GraphitiManager_close_check(r) ==
    /\ pc[r] = "gm_close"
    /\ \/ /\ _graphiti = None
          /\ Continue(r, after_graphiti_close(loc[r].route, FALSE), "graphiti", FALSE,
                      CloseEvent("graphiti", None, FALSE, FALSE, _graphiti))
       \/ /\ _graphiti # None
          /\ pc' = [pc EXCEPT ![r] = "gm_closing"]
          /\ loc' = [loc EXCEPT ![r].uuid = _graphiti]
          /\ ev' = NoEvent
    /\ UNCHANGED <<arrivals, adapters>>

\* GraphitiManager.close: the client's close returns, then self._graphiti = None;
\* or it raises, and the exception leaves close
GraphitiManager_close_await(r) ==
    /\ pc[r] = "gm_closing"
    /\ \/ /\ Continue(r, after_graphiti_close(loc[r].route, TRUE), "graphiti", TRUE,
                      CloseEvent("graphiti", loc[r].uuid, TRUE, TRUE, _graphiti))
          /\ UNCHANGED <<_graphiti, since>>
       \/ /\ _graphiti' = None
          /\ since' = Cleared("graphiti")
          /\ Continue(r, after_graphiti_close(loc[r].route, FALSE), "graphiti", FALSE,
                      CloseEvent("graphiti", loc[r].uuid, FALSE, FALSE, None))
    /\ UNCHANGED <<arrivals, _driver, nextClient>>

\* Neo4jDriver.close: if self._driver is not None: try: await self._driver.close()
Neo4jDriver_close_check(r) ==
    /\ pc[r] = "nd_close"
    /\ \/ /\ _driver = None
          /\ Continue(r, "idle", "driver", FALSE,
                      CloseEvent("driver", None, FALSE, FALSE, _driver))
       \/ /\ _driver # None
          /\ pc' = [pc EXCEPT ![r] = "nd_closing"]
          /\ loc' = [loc EXCEPT ![r].uuid = _driver]
          /\ ev' = NoEvent
    /\ UNCHANGED <<arrivals, adapters>>

\* Neo4jDriver.close: except Exception: log; finally: self._driver = None
Neo4jDriver_close_await(r) ==
    /\ pc[r] = "nd_closing"
    /\ _driver' = None
    /\ since' = Cleared("driver")
    /\ \E raised \in BOOLEAN :
          Continue(r, "idle", "driver", raised,
                   CloseEvent("driver", loc[r].uuid, raised, FALSE, None))
    /\ UNCHANGED <<arrivals, _graphiti, nextClient>>

\* A task calls an adapter, or the lifespan starts up or begins to shut down.
ArriveCall(r) ==
    \/ get_graphiti(r)
    \/ get_driver(r)
    \/ lifespan_startup(r)
    \/ GraphitiManager_close(r)
    \/ Neo4jDriver_close(r)
    \/ lifespan_shutdown(r)

\* The call of task r resumes from its await.
ResumeCall(r) ==
    \/ get_graphiti_initialize(r)
    \/ GraphitiManager_close_check(r)
    \/ GraphitiManager_close_await(r)
    \/ Neo4jDriver_close_check(r)
    \/ Neo4jDriver_close_await(r)

\* after the import of the modules: graphiti_manager = GraphitiManager(),
\* neo4j_driver = Neo4jDriver()
InitAdapters ==
    /\ nodes = {} /\ rels = {} /\ nextId = 1
    /\ arrivals = 0
    /\ pc = [r \in Req |-> "idle"]
    /\ loc = [r \in Req |-> IdleLoc]
    /\ ev = NoEvent
    /\ postPrev = NoPost /\ run = NoRun /\ linkPrev = NoLink
    /\ _graphiti = None
    /\ _driver = None
    /\ nextClient = 1
    /\ since = NoClients

NextAdapters ==
    \E r \in Req : \/ /\ arrivals < MaxAdapterCalls /\ FirstFree(r) /\ ArriveCall(r)
                      /\ UNCHANGED graph
                   \/ ResumeCall(r) /\ UNCHANGED graph

SpecAdapters == InitAdapters /\ [][NextAdapters]_vars

----------------------------------------------------------------------------
\* C1: in every reachable state, under any interleaving of create-user,
\* session-creation and delete-user requests, at most one entity labelled
\* User exists per partition key.
C1_AtMostOneUserPerPartition ==
    \A u \in Users : Cardinality(find_user_by_label(u)) <= 1

\* C2: a find_or_create call that follows another one for the same identifier,
\* with no deletion in between, returns the uuid the previous call returned
\* and persists no node (whatever the display names).  Stated for the calls
\* whose upstream calls all succeeded, in a partition that holds one User.
C2_SameUuidTwice ==
    (/\ ev.op = "create_user" /\ ev.prev # 0 /\ ev.clean
     /\ Cardinality(find_user_by_label(ev.uid)) = 1)
        => (ev.uuid = ev.prev /\ ~ ev.created)

\* C3: a GET /users/{id} that follows a 201 of POST /users for the identifier,
\* with no deletion in between, returns the uuid and the user_name of that
\* response.  Stated for the GETs whose query did not raise, in a partition
\* that holds one User.
C3_GetReturnsWhatPostReturned ==
    (/\ ev.op = "get_user" /\ ~ ev.raised /\ ev.post.uuid # 0
     /\ Cardinality(find_user_by_label(ev.uid)) = 1)
        => /\ ev.code = 200
           /\ ev.uuid = ev.post.uuid
           /\ ev.user_name = ev.post.user_name

\* C4: after any sequence of non-overlapping recordings, with or without an
\* explicit sequence number, no two sessions of a partition carry the same
\* sequence number.
C4_UniqueSequenceNumbers ==
    \A s \in nodes, t \in nodes :
        ("Episodic" \in s.labels /\ "Episodic" \in t.labels /\ s.gid = t.gid /\ s # t)
            => s.num # t.num

\* C5: two recordings for the same user, both auto-numbered, both handled at
\* the same time with their count queries succeeding, are never assigned the
\* same sequence number.
C5_NoCollisionUnderConcurrency ==
    \A r \in Req, q \in Req :
        (/\ r # q
         /\ pc[r] = "rec_add" /\ pc[q] = "rec_add"
         /\ loc[r].auto /\ loc[q].auto
         /\ loc[r].clean /\ loc[q].clean
         /\ loc[r].uid = loc[q].uid)
            => loc[r].num # loc[q].num

\* C6: the k-th of the auto-numbered recordings made one after another for a
\* user, starting from a partition without session and with every call
\* succeeding, gets sequence number k (the first one gets 1).
C6_SequentialAutoNumbers ==
    (ev.op = "create_session" /\ ev.k > 0) => ev.session_number = ev.k

C6_Witness ==
    ev.op = "create_session" /\ ev.k = 3 /\ ev.session_number = 3

\* C7: delete_user_data for an identifier without scoped node returns
\* no_data_found with both counts 0, never issues the delete query and leaves
\* the graph unchanged.
C7_NoDataFound ==
    (ev.op = "delete_user" /\ ev.had_nodes = 0)
        => /\ ev.status = "no_data_found"
           /\ ev.deleted_nodes = 0
           /\ ev.deleted_relationships = 0
           /\ "delete_query" \notin ev.ran
           /\ ev.unchanged

C7_Witness ==
    /\ ev.op = "delete_user" /\ ev.had_nodes = 0 /\ ev.status = "no_data_found"
    /\ nodes # {}

\* C8: with no other request in flight, delete_user_data for an identifier
\* with N >= 1 scoped nodes and M distinct relationships incident to them
\* returns success with deleted_nodes = N and deleted_relationships = M, and
\* no node of the partition remains.
C8_DeleteCounts ==
    (ev.op = "delete_user" /\ ev.had_nodes >= 1)
        => /\ ev.status = "success"
           /\ ev.deleted_nodes = ev.had_nodes
           /\ ev.deleted_relationships = ev.had_rels
           /\ Scoped(ev.uid) = {}

C8_Witness ==
    /\ ev.op = "delete_user" /\ ev.status = "success"
    /\ ev.had_nodes >= 3 /\ ev.had_rels >= 2

\* C9 as claimed: both counts a successful delete_user_data returns are the
\* ones its count query read, also when another request writes in between.
C9_ReportsCountPhaseValues ==
    (ev.op = "delete_user" /\ ev.status = "success")
        => /\ ev.deleted_nodes = ev.node_count
           /\ ev.deleted_relationships = ev.rel_count

\* C9 amended: a successful delete_user_data returns as deleted_relationships
\* the relationship count its count query read, and as deleted_nodes the
\* number of nodes its delete query removed.
C9_ReportsRelCountOfCountPhase ==
    (ev.op = "delete_user" /\ ev.status = "success")
        => /\ ev.deleted_relationships = ev.rel_count
           /\ ev.deleted_nodes = ev.removed_nodes

C9_Witness ==
    /\ ev.op = "delete_user" /\ ev.status = "success"
    /\ ev.deleted_nodes # ev.node_count

\* C10: a link call whose query completes, for a user that exists, returns the
\* number of sessions of the partition that lacked a link from the user and
\* creates as many links; when it follows a link call for the same user with no
\* session recorded in between, it creates no link and returns 0.
C10_LinkIdempotent ==
    (ev.op = "link_user_sessions" /\ ~ ev.raised /\ ev.live)
        => /\ ev.linked_sessions = ev.lacking
           /\ ev.made = ev.linked_sessions
           /\ ev.again => (ev.linked_sessions = 0 /\ ev.made = 0)

C10_Witness ==
    /\ ev.op = "link_user_sessions" /\ ~ ev.raised /\ ev.live
    /\ ev.again /\ ev.prev_linked >= 1 /\ ev.linked_sessions = 0

\* C11: no User entity has two HAS_SESSION links to one session, whatever the
\* interleaving of the link tasks of several session requests with each other
\* and with further recordings.
C11_AtMostOneLinkPerSession ==
    \A e \in rels : e.type = "HAS_SESSION" => e.copy = 1

C11_Witness ==
    /\ ev.op = "link_user_sessions" /\ ev.made = 2
    /\ \E q \in Req : /\ pc[q] = "bg_link"
                      /\ loc[q].uid = ev.uid /\ loc[q].uuid = ev.uuid

\* C12: the link task of a session request ends without raising, after the
\* request has answered 201; when its query raises it returns 0 and creates
\* no link.
C12_LinkFailureStaysInside ==
    [][\A r \in Req :
          (pc[r] = "bg_link" /\ pc'[r] # "bg_link")
              => /\ ev'.op = "link_user_sessions"
                 /\ ev'.response = 201
                 /\ ev'.raised => (ev'.linked_sessions = 0 /\ rels' = rels)]_vars

C12_Witness ==
    ev.op = "link_user_sessions" /\ ev.raised /\ ev.lacking >= 1 /\ ev.response = 201

\* C14: a handler whose graph or engine call raises answers 400.
C14_UpstreamFailureIs400 ==
    /\ ev.op = "error" => ev.code = 400
    /\ (ev.op = "get_user" /\ ev.raised) => ev.code = 400

\* C15: a user-creation or session-creation request one of whose upstream
\* calls raised is not in flight any more (it ended with an error before any
\* further call).
C15_FailureIsTerminal ==
    \A r \in Req : pc[r] \notin {"idle", "bg_link"} => loc[r].clean

\* C19: the link task of a session request is scheduled by the step that
\* records the session and answers 201, and by no other; a recording that
\* fails schedules nothing, adds nothing and ends the request with an error.
C19_LinkAfterRecord ==
    [][\A r \in Req :
          /\ (pc'[r] = "bg_link" /\ pc[r] # "bg_link")
                => /\ pc[r] = "rec_add"
                   /\ ev'.op = "create_session" /\ ev'.code = 201
                   /\ \E s \in nodes' \ nodes : /\ "Episodic" \in s.labels
                                                /\ s.gid = loc[r].uid
                                                /\ s.num = loc[r].num
          /\ (pc[r] = "rec_add" /\ pc'[r] \notin {"rec_add", "bg_link"})
                => /\ ev'.op = "error" /\ pc'[r] = "idle"
                   /\ nodes' = nodes /\ rels' = rels]_vars

C19_Witness ==
    /\ ev.op = "create_session" /\ ev.code = 201
    /\ \E r \in Req : pc[r] = "bg_link" /\ loc[r].uid = ev.uid

\* C13: the facts a profile search submitted with user_id A returns are the
\* facts of partition A: they do not depend on what other partitions hold.
C13_SearchScopedToUser ==
    (ev.op = "search_profile" /\ ev.code = 200) => ev.results = ev.scoped

\* C18: the node a session request holds as the user when it numbers and
\* submits the session, unless a deletion removed it meanwhile, is an entity
\* labelled User: the request found or created a User before the engine gets
\* the session.
C18_UserBeforeSession ==
    \A r \in Req :
        pc[r] \in {"rec_count", "rec_add"}
            => \A n \in nodes : n.id = loc[r].uuid => "User" \in n.labels

\* C16: a get call returns the cached client when there is one and constructs
\* one, once, when there is none; when a close call has ended, the cache is
\* cleared (so that the next get call constructs a fresh client).
C16_LazyInitOnce ==
    /\ ev.op = "get"
          => /\ ev.client # None /\ ev.cached_after = ev.client
             /\ ev.before # None => (ev.client = ev.before /\ ev.constructed = 0)
             /\ ev.before = None => ev.constructed = 1
    /\ ev.op = "close" => ev.cached_after = None

\* C17: the shutdown has called the close of the knowledge-engine client, then
\* the close of the graph driver, whatever the first one raised, and lets no
\* exception out.
C17_ShutdownClosesBoth ==
    ev.op = "shutdown" => (ev.log = <<"graphiti", "driver">> /\ ~ ev.propagated)

C17_Witness ==
    ev.op = "shutdown" /\ "graphiti" \in ev.failed /\ ev.log = <<"graphiti", "driver">>

\* C20: since the cache of an adapter was last cleared, the adapter has
\* constructed at most one client and every get call returned that client,
\* also when several tasks were inside get with no client cached.
C20_OneClientForConcurrentGets ==
    \A a \in Adapters :
        /\ Cardinality(since[a].built) <= 1
        /\ since[a].handed \subseteq since[a].built

C20_Witness ==
    /\ ev.op = "get" /\ ev.raced /\ ev.constructed = 0
    /\ since["graphiti"].handed = {ev.client}

\* C21: when the close of an adapter has ended because the close of its
\* client raised, the cache of the adapter is cleared all the same.
C21_ClearedThoughCloseRaised ==
    (ev.op = "close" /\ ev.raised) => ev.cached_after = None

\* C22: the delete query of delete_user_data for identifier A leaves the nodes
\* of every other partition, and the relationships between such nodes, as they
\* were.
C22_DeleteKeepsOtherPartitions ==
    [][\A r \in Req :
          (pc[r] = "del_delete" /\ pc'[r] # "del_delete")
              => LET A == loc[r].uid
                     kept == {n \in nodes : n.gid # A}
                     among(ns, es) ==
                         {e \in es : /\ \E n \in ns : n.id = e.src
                                     /\ \E n \in ns : n.id = e.dst}
                 IN /\ {n \in nodes' : n.gid # A} = kept
                    /\ among(kept, rels') = among(kept, rels)]_vars

C22_Witness ==
    /\ ev.op = "delete_user" /\ ev.status = "success" /\ ev.removed_nodes >= 1
    /\ \E n \in nodes, e \in rels : n.gid # ev.uid /\ e.src = n.id

\* C23: the node create_or_get_user_node returns, to POST /users or to a
\* session request, carries the User label.
C23_ReturnedNodeIsUser ==
    ev.op \in {"create_user", "create_or_get_user"} => "User" \in ev.labels

====
